---- MODULE Spec2Model ----
(***************************************************************************)
(* Model of go-sipantau (src/main.go): a recursive crawler whose           *)
(* goroutines fan in to one MongoDB writer over a buffered channel.        *)
(*                                                                         *)
(* A goroutine is identified by the path of child indices that leads to    *)
(* the descriptor it processes: <<j>> is the closure main starts for the   *)
(* j-th root location, Append(p, k) the closure started for the k-th       *)
(* sub-location listed at p.  The remote source answers every fetch        *)
(* nondeterministically, within one of two input families (fixture).       *)
(***************************************************************************)
EXTENDS Integers, Sequences, FiniteSets, TLC

\* ---- bounds of the model ----
MaxNodes == 4        \* descriptors the source lists in a "small" fixture
MaxDepth == 2        \* root locations sit at most MaxDepth levels above a TPS listing
MaxLimit == 2        \* limits of the LimitedWaitGroup exercised on its own
MaxCallers == 2      \* goroutines calling Add on that group

\* ---- program constants ----
ChanCap == 20        \* make(chan TPSData, 20)
LimitTwo == 1 + 1    \* variant of Limit: the groups admit two tasks at once
Limit == 1           \* NewLimitedWaitGroup(1)
TerminalLevel == 4   \* subLoc.Tingkat == 4

\* leaves listed by the one terminal node of the "bulk" fixture: one record
\* in the sink's hands, a full channel, one sender blocked on it and one
\* more child waiting for the slot that sender holds
BulkKids == ChanCap + 3

VARIABLES
    fixture,     \* input family the remote source is drawn from
    budget,      \* descriptors the source may still list (small fixture)
    proc,        \* "running" | "exited" (main returned) | "crashed" (panic)
    mainpc,      \* position of main
    locations,   \* main: result of fetchLocations(initialURL)
    mi,          \* main: index of the next location of the range loop
    mwg,         \* main: counter of `var wg sync.WaitGroup`
    g,           \* goroutines of the traversal, by path
    dataChannel, \* buffered records of dataChannel
    closed,      \* whether dataChannel has been closed
    sinkpc,      \* position of the insertData goroutine
    sinkErr,     \* error insertData ended with
    cur,         \* insertData: the record taken by the range loop
    store,       \* documents of collection data_tps
    indexed,     \* whether the unique index on id has been created
    sent,        \* history: records sent on dataChannel, in send order
    attempted,   \* history: records InsertOne was called with, in order
    unit         \* a LimitedWaitGroup exercised on its own, with its callers

progVars == <<fixture, budget, proc, mainpc, locations, mi, mwg, g, dataChannel,
              closed, sinkpc, sinkErr, cur, store, indexed, sent, attempted>>

vars == <<progVars, unit>>

mainVars == <<mainpc, locations, mi, mwg>>
sinkVars == <<sinkpc, sinkErr, cur, store, indexed, attempted>>
envVars == <<fixture, budget, unit>>

\* ---------------------------------------------------------------------
\* Data
\* ---------------------------------------------------------------------
DigitChars == <<"0", "1", "2", "3", "4", "5", "6", "7", "8", "9">>

DigitVal(c) == (CHOOSE d \in 1..10 : DigitChars[d] = c) - 1

IsDigit(c) == \E d \in 1..10 : DigitChars[d] = c

RECURSIVE Itoa(_)
Itoa(n) == IF n < 10 THEN <<DigitChars[n + 1]>>
           ELSE Append(Itoa(n \div 10), DigitChars[(n % 10) + 1])

RECURSIVE DigitsValue(_)
DigitsValue(s) == IF s = <<>> THEN 0
                  ELSE 10 * DigitsValue(SubSeq(s, 1, Len(s) - 1)) + DigitVal(s[Len(s)])

\* strconv.ParseInt(s, 10, 64): a syntax error yields value 0
ParseInt(s) ==
    IF s # <<>> /\ \A k \in 1..Len(s) : IsDigit(s[k])
    THEN [val |-> DigitsValue(s), err |-> FALSE]
    ELSE [val |-> 0, err |-> TRUE]

Location(kode, tingkat) == [Kode |-> kode, Tingkat |-> tingkat]

\* body stands for the decoded payload (Mode, Chart, Images, ...)
TPSData(id, suara, body) == [Id |-> id, StatusSuara |-> suara, body |-> body]

ZeroTPSData == TPSData(0, FALSE, <<>>)

\* ---------------------------------------------------------------------
\* LimitedWaitGroup
\* ---------------------------------------------------------------------
NewLimitedWaitGroup(limit) == [wg |-> 0, limit |-> limit, sem |-> 0]

\* variant of AddPanics: the check rejects delta = limit too
AddPanicsAtLimit(lwg, delta) == delta >= lwg.limit

\* Add: delta > lwg.limit panics
AddPanics(lwg, delta) == delta > lwg.limit

\* first half of Add: lwg.wg.Add(delta)
LwgRegister(lwg, delta) == [lwg EXCEPT !.wg = @ + delta]

\* variant of SemFree: the send on sem never blocks
SemAlwaysFree(lwg) == lwg.sem >= 0

\* lwg.sem <- struct{}{} can proceed
SemFree(lwg) == lwg.sem < lwg.limit

\* second half of Add(1): the send on sem
LwgAcquire(lwg) == [lwg EXCEPT !.sem = @ + 1]

\* first half of Done: <-lwg.sem
LwgRelease(lwg) == [lwg EXCEPT !.sem = @ - 1]

\* second half of Done: lwg.wg.Done()
LwgFinish(lwg) == [lwg EXCEPT !.wg = @ - 1]

\* lwg.wg.Wait() can return
WaitReady(lwg) == lwg.wg = 0

\* ---------------------------------------------------------------------
\* Goroutines
\* ---------------------------------------------------------------------
Parent(p) == SubSeq(p, 1, Len(p) - 1)

Child(p, k) == Append(p, k)

\* err: the fetch of this goroutine returned an error; cerr: the variable
\* err of the call running here, as last assigned by the closures of its
\* loop (line 261 / 263), non-nil or not
NewGoroutine(fn, loc) ==
    [fn |-> fn,
     pc |-> IF fn = "leaf" THEN "fetchDataTPS" ELSE "fetchLocations",
     loc |-> loc,
     subLocations |-> <<>>,
     i |-> 0,
     lwg |-> NewLimitedWaitGroup(Limit),
     err |-> FALSE,
     cerr |-> FALSE,
     data |-> ZeroTPSData]

\* position after the range loop has dealt with children 1..i-1 of n:
\* processAndStoreLocation ends with wg.Wait(), fetchAndStoreTPS returns
LoopPc(fn, i, n) ==
    IF i <= n THEN "Add"
    ELSE IF fn = "psl" THEN "Wait" ELSE "return"

\* variant of Branch: the terminal level is taken one level too early
BranchEarly(subLoc) == IF subLoc.Tingkat = TerminalLevel - 1 THEN "tps" ELSE "psl"

\* lines 261 / 263 (87 in main): when the call running in p returns, its
\* closure assigns the result to the err variable it shares with the other
\* closures of the loop that started it; main's closures declare their own.
\* The assignment is taken with the step that ends the call.
Returning(gs, p) ==
    IF gs[p].pc # "return" THEN gs
    ELSE IF Len(p) = 1 THEN [gs EXCEPT ![p].pc = "Done"]
    ELSE [gs EXCEPT ![Parent(p)].cerr = gs[p].err, ![p].pc = "check"]

\* the function the closure of processAndStoreLocation runs for subLoc
Branch(subLoc) == IF subLoc.Tingkat = TerminalLevel THEN "tps" ELSE "psl"

\* ---------------------------------------------------------------------
\* The remote source
\* ---------------------------------------------------------------------
SmallKodes == {<<"1">>, <<"2">>, <<"x">>}

Listing(err, list) == [err |-> err, list |-> list]

\* answers to fetchLocations(baseURL + "0.json")
RootListings ==
    IF fixture = "bulk"
    THEN {Listing(FALSE, <<Location(Itoa(1), TerminalLevel - 1)>>)}
    ELSE {Listing(TRUE, <<>>)} \cup
         {Listing(FALSE, [k \in 1..n |-> Location(Itoa(k), lvl)]) :
             n \in 0..budget, lvl \in (TerminalLevel - MaxDepth)..(TerminalLevel - 1)}

\* answers to fetchLocations(burl + loc.Kode + ".json") in goroutine p
Listings(p) ==
    LET lvl == g[p].loc.Tingkat + 1 IN
    IF fixture = "bulk"
    THEN IF g[p].fn = "tps"
         THEN {Listing(FALSE, [k \in 1..BulkKids |-> Location(Itoa(k), lvl)])}
         ELSE {Listing(FALSE, <<Location(Itoa(1), lvl)>>)}
    ELSE {Listing(TRUE, <<>>)} \cup
         IF g[p].fn = "tps"
         THEN UNION {{Listing(FALSE, [k \in 1..n |-> Location(ks[k], lvl)]) :
                         ks \in [1..n -> SmallKodes]} : n \in 0..budget}
         ELSE {Listing(FALSE, [k \in 1..n |-> Location(Itoa(k), lvl)]) : n \in 0..budget}

\* answers to fetchDataTPS in leaf goroutine p: the decoded record and the
\* error; a decode error may leave the record partly filled
Results(p) ==
    IF fixture = "bulk"
    THEN {[data |-> TPSData(7, TRUE, p), err |-> FALSE]}
    ELSE {[data |-> TPSData(id, s, p), err |-> e] :
             id \in {0, 7}, s \in BOOLEAN, e \in BOOLEAN}
         \cup {[data |-> ZeroTPSData, err |-> TRUE]}

\* ---------------------------------------------------------------------
\* Storage
\* ---------------------------------------------------------------------
HasId(coll, id) == \E k \in 1..Len(coll) : coll[k].Id = id

\* variant of InsertOne: the index on id is not unique
InsertOneNoIndex(coll, doc, fault) ==
    IF fault THEN [coll |-> coll, err |-> "write"]
    ELSE [coll |-> Append(coll, doc), err |-> "none"]

\* collection.InsertOne under the unique index on id; fault is a storage
\* failure unrelated to the document
InsertOne(coll, doc, fault) ==
    IF HasId(coll, doc.Id) THEN [coll |-> coll, err |-> "duplicate"]
    ELSE IF fault THEN [coll |-> coll, err |-> "write"]
    ELSE [coll |-> Append(coll, doc), err |-> "none"]

\* ---------------------------------------------------------------------
\* A LimitedWaitGroup on its own
\* ---------------------------------------------------------------------
\* a group of the given limit and the goroutines that will call Add on it;
\* running counts the tasks started after an Add returned that have not
\* entered Done, releasing those between <-lwg.sem and lwg.wg.Done()
NewUnit(limit, callers) ==
    [lwg |-> NewLimitedWaitGroup(limit),
     call |-> [c \in callers |-> [pc |-> "idle", delta |-> 0, got |-> 0]],
     running |-> 0,
     releasing |-> 0,
     finished |-> 0,
     crashed |-> FALSE]

\* ---------------------------------------------------------------------
\* Init
\* ---------------------------------------------------------------------
\* main is about to fetch the root listing; loading .env (lines 63-66) is
\* configuration and precedes the modelled part
ProgInit ==
    /\ fixture \in {"small", "bulk"}
    /\ budget = IF fixture = "small" THEN MaxNodes ELSE 0
    /\ proc = "running"
    /\ mainpc = "fetchLocations"
    /\ locations = <<>>
    /\ mi = 0
    /\ mwg = 0
    /\ g = <<>>
    /\ dataChannel = <<>>
    /\ closed = FALSE
    /\ sinkpc = "none"
    /\ sinkErr = "none"
    /\ cur = ZeroTPSData
    /\ store = <<>>
    /\ indexed = FALSE
    /\ sent = <<>>
    /\ attempted = <<>>

Init == ProgInit /\ unit = NewUnit(Limit, {})

\* ---------------------------------------------------------------------
\* main
\* ---------------------------------------------------------------------
\* lines 69-79: fetch the root listing; on error return, else make the
\* channel and start insertData
MainFetch ==
    /\ proc = "running"
    /\ mainpc = "fetchLocations"
    /\ \E res \in RootListings :
         IF res.err
         THEN /\ mainpc' = "returned"
              /\ proc' = "exited"
              /\ UNCHANGED <<locations, mi, sinkpc, budget>>
         ELSE /\ locations' = res.list
              /\ mi' = 1
              /\ mainpc' = IF Len(res.list) >= 1 THEN "range" ELSE "Wait"
              /\ sinkpc' = "Connect"
              /\ budget' = IF fixture = "small" THEN budget - Len(res.list) ELSE budget
              /\ UNCHANGED proc
    /\ UNCHANGED <<fixture, unit, mwg, g, dataChannel, closed, sinkErr, cur, store,
                   indexed, sent, attempted>>

\* lines 83-92: wg.Add(1); go func(loc)
MainSpawn ==
    /\ proc = "running"
    /\ mainpc = "range"
    /\ mwg' = mwg + 1
    /\ g' = g @@ (<<mi>> :> NewGoroutine("psl", locations[mi]))
    /\ mi' = mi + 1
    /\ mainpc' = IF mi + 1 <= Len(locations) THEN "range" ELSE "Wait"
    /\ UNCHANGED <<envVars, proc, locations, dataChannel, closed, sinkVars, sent>>

\* lines 93-95: wg.Wait() returns, the success line is printed, main returns
MainWait ==
    /\ proc = "running"
    /\ mainpc = "Wait"
    /\ mwg = 0
    /\ mainpc' = "done"
    /\ proc' = "exited"
    /\ UNCHANGED <<envVars, locations, mi, mwg, g, dataChannel, closed, sinkVars, sent>>

\* ---------------------------------------------------------------------
\* processAndStoreLocation / fetchAndStoreTPS
\* ---------------------------------------------------------------------
Expanding(p) == p \in DOMAIN g /\ g[p].fn \in {"psl", "tps"}

\* lines 218-225 / 247-254
FetchLocations(p) ==
    /\ proc = "running"
    /\ Expanding(p)
    /\ g[p].pc = "fetchLocations"
    /\ \E res \in Listings(p) :
         IF res.err
         THEN /\ g' = Returning([g EXCEPT ![p].err = TRUE, ![p].pc = "return"], p)
              /\ UNCHANGED budget
         ELSE /\ g' = Returning([g EXCEPT ![p].subLocations = res.list,
                                          ![p].i = 1,
                                          ![p].pc = LoopPc(g[p].fn, 1, Len(res.list))], p)
              /\ budget' = IF fixture = "small" THEN budget - Len(res.list) ELSE budget
    /\ UNCHANGED <<fixture, unit, proc, mainVars, dataChannel, closed, sinkVars, sent>>

\* lines 227 / 256, first half of Add(1): lwg.wg.Add(1)
Add(p) ==
    /\ proc = "running"
    /\ Expanding(p)
    /\ g[p].pc = "Add"
    /\ IF AddPanics(g[p].lwg, 1)
       THEN proc' = "crashed" /\ UNCHANGED g
       ELSE /\ g' = [g EXCEPT ![p].lwg = LwgRegister(@, 1), ![p].pc = "sem"]
            /\ UNCHANGED proc
    /\ UNCHANGED <<envVars, mainVars, dataChannel, closed, sinkVars, sent>>

\* second half of Add(1), then `go func(subLoc)`
Spawn(p) ==
    /\ proc = "running"
    /\ Expanding(p)
    /\ g[p].pc = "sem"
    /\ SemFree(g[p].lwg)
    /\ LET k == g[p].i
           subLoc == g[p].subLocations[k]
           fn == IF g[p].fn = "tps" THEN "leaf" ELSE Branch(subLoc)
       IN g' = Returning([g EXCEPT ![p].lwg = LwgAcquire(@),
                                   ![p].i = k + 1,
                                   ![p].pc = LoopPc(g[p].fn, k + 1, Len(g[p].subLocations))],
                         p)
               @@ (Child(p, k) :> NewGoroutine(fn, subLoc))
    /\ UNCHANGED <<envVars, proc, mainVars, dataChannel, closed, sinkVars, sent>>

\* line 270: wg.Wait() returns, processAndStoreLocation returns nil
Wait(p) ==
    /\ proc = "running"
    /\ Expanding(p)
    /\ g[p].pc = "Wait"
    /\ WaitReady(g[p].lwg)
    /\ g' = Returning([g EXCEPT ![p].pc = "return"], p)
    /\ UNCHANGED <<envVars, proc, mainVars, dataChannel, closed, sinkVars, sent>>

\* lines 265-267: the closure reads the shared err and prints it if set
Check(p) ==
    /\ proc = "running"
    /\ Expanding(p)
    /\ g[p].pc = "check"
    /\ g' = [g EXCEPT ![p].pc = "Done"]
    /\ UNCHANGED <<envVars, proc, mainVars, dataChannel, closed, sinkVars, sent>>

\* line 86: the deferred wg.Done() of a closure started by main
TopDone(p) ==
    /\ proc = "running"
    /\ p \in DOMAIN g
    /\ Len(p) = 1
    /\ g[p].pc = "Done"
    /\ mwg' = mwg - 1
    /\ g' = [g EXCEPT ![p].pc = "finished"]
    /\ UNCHANGED <<envVars, proc, mainpc, locations, mi, dataChannel, closed,
                   sinkVars, sent>>

\* lines 229 / 258: the deferred Done(), <-lwg.sem then lwg.wg.Done().  The
\* two statements are one step: between them the goroutine only holds a
\* counter decrement that nothing but the owner's Wait observes
Done(p) ==
    /\ proc = "running"
    /\ p \in DOMAIN g
    /\ Len(p) > 1
    /\ g[p].pc = "Done"
    /\ g[Parent(p)].lwg.sem > 0
    /\ g' = [g EXCEPT ![Parent(p)].lwg = LwgFinish(LwgRelease(@)), ![p].pc = "finished"]
    /\ UNCHANGED <<envVars, proc, mainVars, dataChannel, closed, sinkVars, sent>>

\* ---------------------------------------------------------------------
\* the leaf closure of fetchAndStoreTPS
\* ---------------------------------------------------------------------
\* variant of Accepts: every fetched record is sent
AcceptsAll(data) == data.StatusSuara \/ ~data.StatusSuara

\* the record is sent iff its StatusSuara flag is set (line 235)
Accepts(data) == data.StatusSuara

\* variant of PatchId: the fetched id is kept when the code does not parse
PatchIdIfParsed(data, kode) ==
    IF ParseInt(kode).err THEN data ELSE [data EXCEPT !.Id = ParseInt(kode).val]

\* line 234: data.Id, _ = strconv.ParseInt(subLoc.Kode, 10, 64)
PatchId(data, kode) == [data EXCEPT !.Id = ParseInt(kode).val]

\* variant of Filtered: a record that is not sent leaves without Done
FilteredNoDone(data) == IF Accepts(data) THEN "send" ELSE "finished"

\* lines 235-238: the send is skipped for a record that is not accepted;
\* the deferred Done runs either way
Filtered(data) == IF Accepts(data) THEN "send" ELSE "Done"

\* lines 230-235: fetch the record, patch its id from the code, filter
FetchDataTPS(p) ==
    /\ proc = "running"
    /\ p \in DOMAIN g
    /\ g[p].fn = "leaf"
    /\ g[p].pc = "fetchDataTPS"
    /\ \E res \in Results(p) :
         LET data == PatchId(res.data, g[p].loc.Kode)
         IN g' = [g EXCEPT ![p].data = data,
                           ![p].err = res.err,
                           ![p].pc = Filtered(data)]
    /\ UNCHANGED <<envVars, proc, mainVars, dataChannel, closed, sinkVars, sent>>

\* variant of CanSend: a send never blocks
CanSendAlways(ch) == Len(ch) >= 0

\* a send on the buffered channel proceeds while the buffer has room
CanSend(ch) == Len(ch) < ChanCap

\* line 236: dataChannel <- data
Send(p) ==
    /\ proc = "running"
    /\ p \in DOMAIN g
    /\ g[p].pc = "send"
    /\ CanSend(dataChannel)
    /\ dataChannel' = Append(dataChannel, g[p].data)
    /\ sent' = Append(sent, g[p].data)
    /\ g' = [g EXCEPT ![p].pc = "Done"]
    /\ UNCHANGED <<envVars, proc, mainVars, closed, sinkVars>>

\* ---------------------------------------------------------------------
\* insertData
\* ---------------------------------------------------------------------
\* variant of Connected: the receive loop starts right after connecting
ConnectedNoIndex == "range"

\* insertData goes on to create the index once connected (lines 182-188)
Connected == "CreateIndex"

\* lines 174-179: mongo.Connect; on error print and return the error
SinkConnect ==
    /\ proc = "running"
    /\ sinkpc = "Connect"
    /\ \E ok \in BOOLEAN :
         IF ok
         THEN sinkpc' = Connected /\ UNCHANGED sinkErr
         ELSE sinkpc' = "returned" /\ sinkErr' = "connect"
    /\ UNCHANGED <<envVars, proc, mainVars, g, dataChannel, closed, cur, store,
                   indexed, sent, attempted>>

\* lines 184-191: create the unique index; on error panic
SinkCreateIndex ==
    /\ proc = "running"
    /\ sinkpc = "CreateIndex"
    /\ \E ok \in BOOLEAN :
         IF ok
         THEN sinkpc' = "range" /\ indexed' = TRUE /\ UNCHANGED <<sinkErr, proc>>
         ELSE /\ sinkpc' = "panicked" /\ sinkErr' = "index" /\ proc' = "crashed"
              /\ UNCHANGED indexed
    /\ UNCHANGED <<envVars, mainVars, g, dataChannel, closed, cur, store,
                   sent, attempted>>

\* variant of Recv: the newest buffered record is taken
RecvNewest(ch) == [val |-> ch[Len(ch)], rest |-> SubSeq(ch, 1, Len(ch) - 1)]

\* a receive on a buffered channel takes the oldest buffered record
Recv(ch) == [val |-> Head(ch), rest |-> Tail(ch)]

\* line 194: the range loop takes a record, or ends on a closed and
\* drained channel (lines 211-213, then the deferred Disconnect)
SinkReceive ==
    /\ proc = "running"
    /\ sinkpc = "range"
    /\ IF dataChannel # <<>>
       THEN /\ cur' = Recv(dataChannel).val
            /\ dataChannel' = Recv(dataChannel).rest
            /\ sinkpc' = "InsertOne"
       ELSE /\ closed
            /\ sinkpc' = "ended"
            /\ UNCHANGED <<cur, dataChannel>>
    /\ UNCHANGED <<envVars, proc, mainVars, g, closed, sinkErr, store, indexed, sent,
                   attempted>>

\* lines 204-207: InsertOne; on error return it
SinkInsert ==
    /\ proc = "running"
    /\ sinkpc = "InsertOne"
    /\ \E fault \in BOOLEAN :
         LET r == InsertOne(store, cur, fault)
         IN /\ store' = r.coll
            /\ sinkErr' = r.err
            /\ sinkpc' = IF r.err = "none" THEN "range" ELSE "returned"
    /\ attempted' = Append(attempted, cur)
    /\ UNCHANGED <<envVars, proc, mainVars, g, dataChannel, closed, cur, indexed, sent>>

\* ---------------------------------------------------------------------
\* Specification
\* ---------------------------------------------------------------------
Paths == DOMAIN g

Next ==
    \/ MainFetch
    \/ MainSpawn
    \/ MainWait
    \/ \E p \in Paths : FetchLocations(p)
    \/ \E p \in Paths : Add(p)
    \/ \E p \in Paths : Spawn(p)
    \/ \E p \in Paths : Wait(p)
    \/ \E p \in Paths : Check(p)
    \/ \E p \in Paths : TopDone(p)
    \/ \E p \in Paths : Done(p)
    \/ \E p \in Paths : FetchDataTPS(p)
    \/ \E p \in Paths : Send(p)
    \/ SinkConnect
    \/ SinkCreateIndex
    \/ SinkReceive
    \/ SinkInsert

Spec == Init /\ [][Next]_vars

\* the Go scheduler runs every goroutine that can take a step
FairSpec == Spec /\ WF_vars(Next)

\* ---------------------------------------------------------------------
\* Specification of a LimitedWaitGroup on its own: goroutines call
\* Add(delta) once each, start delta tasks when it returns, and every task
\* calls Done
\* ---------------------------------------------------------------------
Callers == DOMAIN unit.call

LwgInit ==
    /\ ProgInit
    /\ fixture = "small"
    /\ unit \in {NewUnit(l, 1..MaxCallers) : l \in 1..MaxLimit}

\* lines 41-45: Add(delta) up to lwg.wg.Add(delta), or the panic
UnitAdd(c, delta) ==
    /\ ~unit.crashed
    /\ unit.call[c].pc = "idle"
    /\ IF AddPanics(unit.lwg, delta)
       THEN unit' = [unit EXCEPT !.call[c] = [pc |-> "panicked", delta |-> delta, got |-> 0],
                                 !.crashed = TRUE]
       ELSE unit' = [unit EXCEPT
                        !.lwg = LwgRegister(@, delta),
                        !.call[c] = [pc |-> IF delta = 0 THEN "returned" ELSE "sem",
                                     delta |-> delta, got |-> 0]]
    /\ UNCHANGED progVars

\* lines 46-48: one send on sem; after the last one Add returns and the
\* caller starts its tasks
UnitAcquire(c) ==
    /\ ~unit.crashed
    /\ unit.call[c].pc = "sem"
    /\ SemFree(unit.lwg)
    /\ LET last == unit.call[c].got + 1 = unit.call[c].delta
       IN unit' = [unit EXCEPT
                      !.lwg = LwgAcquire(@),
                      !.call[c].got = @ + 1,
                      !.call[c].pc = IF last THEN "returned" ELSE "sem",
                      !.running = IF last THEN @ + unit.call[c].delta ELSE @]
    /\ UNCHANGED progVars

\* line 52: a task enters Done, <-lwg.sem
UnitRelease ==
    /\ ~unit.crashed
    /\ unit.running > 0
    /\ unit.lwg.sem > 0
    /\ unit' = [unit EXCEPT !.lwg = LwgRelease(@), !.running = @ - 1, !.releasing = @ + 1]
    /\ UNCHANGED progVars

\* line 53: the task's lwg.wg.Done()
UnitFinish ==
    /\ ~unit.crashed
    /\ unit.releasing > 0
    /\ unit' = [unit EXCEPT !.lwg = LwgFinish(@), !.releasing = @ - 1, !.finished = @ + 1]
    /\ UNCHANGED progVars

LwgNext ==
    \/ \E c \in Callers : \E delta \in 0..(unit.lwg.limit + 1) : UnitAdd(c, delta)
    \/ \E c \in Callers : UnitAcquire(c)
    \/ UnitRelease
    \/ UnitFinish

SpecLwg == LwgInit /\ [][LwgNext]_vars

\* ---------------------------------------------------------------------
\* Observations used by the properties
\* ---------------------------------------------------------------------
Leaves == {p \in DOMAIN g : g[p].fn = "leaf"}

Expansions == {p \in DOMAIN g : g[p].fn \in {"psl", "tps"}}

InSeq(r, s) == \E k \in 1..Len(s) : s[k] = r

\* the leaf fetch of p has succeeded with StatusSuara set
AcceptedLeaf(p) ==
    /\ g[p].fn = "leaf"
    /\ g[p].pc # "fetchDataTPS"
    /\ ~g[p].err
    /\ g[p].data.StatusSuara

\* the leaf fetch of p has succeeded with StatusSuara unset
RejectedLeaf(p) ==
    /\ g[p].fn = "leaf"
    /\ g[p].pc # "fetchDataTPS"
    /\ ~g[p].err
    /\ ~g[p].data.StatusSuara

\* the sink has taken r from the channel
Received(r) == InSeq(r, attempted) \/ (sinkpc = "InsertOne" /\ cur = r)

\* goroutines started, directly or transitively, by the call running in p
Descendants(p) ==
    {q \in DOMAIN g : Len(q) > Len(p) /\ SubSeq(q, 1, Len(p)) = p}

\* the expansion call of p (processAndStoreLocation or fetchAndStoreTPS)
\* has returned
Returned(p) == g[p].pc \in {"check", "Done", "finished"}

\* children of p that were started and have not completed Done
InFlight(p) ==
    {q \in DOMAIN g : Len(q) = Len(p) + 1 /\ Parent(q) = p /\ g[q].pc # "finished"}

UniqueIds(coll) ==
    \A j, k \in 1..Len(coll) : coll[j].Id = coll[k].Id => j = k

\* goroutines other than p started by the same loop as p
Siblings(p) ==
    {q \in DOMAIN g : q # p /\ Len(q) = Len(p) /\ Parent(q) = Parent(p)}

\* ---------------------------------------------------------------------
\* Properties
\* ---------------------------------------------------------------------

\* C1: when main's wait has returned and the success line is printed, the
\* record of every leaf whose fetch succeeded with StatusSuara set has been
\* received by the sink and an insert has been attempted for it.
C1_AcceptedInsertedBeforeExit ==
    mainpc = "done" =>
        \A p \in Leaves : AcceptedLeaf(p) => InSeq(g[p].data, attempted)

\* C2: no record whose StatusSuara is false is ever sent, buffered or
\* stored, and a leaf whose record was rejected never reaches the send.
C2_OnlyConfirmedSent ==
    /\ \A k \in 1..Len(sent) : sent[k].StatusSuara
    /\ \A k \in 1..Len(dataChannel) : dataChannel[k].StatusSuara
    /\ \A k \in 1..Len(store) : store[k].StatusSuara
    /\ \A p \in Leaves :
         (g[p].pc # "fetchDataTPS" /\ ~g[p].data.StatusSuara) =>
             /\ g[p].pc \in {"Done", "finished"}
             /\ ~InSeq(g[p].data, sent)

C2_Witness ==
    /\ \E p \in Leaves : RejectedLeaf(p) /\ g[p].pc = "finished"
    /\ \E q \in Leaves : AcceptedLeaf(q) /\ InSeq(g[q].data, sent)

\* C3: an expansion call that has returned has no goroutine of its subtree
\* still running.
C3_ReturnsAfterSubtree ==
    \A p \in Expansions :
        Returned(p) => \A q \in Descendants(p) : g[q].pc = "finished"

\* C4: under every LimitedWaitGroup at most limit started children have
\* not completed Done.
C4_ConcurrencyBound ==
    \A p \in Expansions : Cardinality(InFlight(p)) <= g[p].lwg.limit

C4_Witness ==
    \E p \in Expansions :
        /\ g[p].pc = "sem"
        /\ Cardinality(InFlight(p)) = g[p].lwg.limit
        /\ g[p].lwg.wg = g[p].lwg.limit + 1

\* C5: the store never holds two documents with one id; an insert of an id
\* already present leaves the store as it was, yields the duplicate-key
\* error and does not crash the process.
C5_Idempotent ==
    [][/\ UniqueIds(store')
       /\ (sinkpc = "InsertOne" /\ attempted' # attempted /\ HasId(store, cur.Id)) =>
              /\ store' = store
              /\ sinkErr' = "duplicate"
              /\ proc' = "running"]_vars

C5_Witness ==
    /\ sinkErr = "duplicate"
    /\ \E k \in 1..Len(store) :
         store[k].Id = cur.Id /\ store[k].body # cur.body

\* C6: after a duplicate-key error the sink is still consuming the channel.
C6_DuplicateNonFatal ==
    sinkErr = "duplicate" => sinkpc \in {"range", "InsertOne"}

\* C7: when main reports completion and the fetch of some node has failed,
\* every accepted record of the failed node's sibling branches has been
\* received by the sink.
C7_SiblingsUnaffected ==
    mainpc = "done" =>
        \A f \in DOMAIN g : g[f].err =>
            \A s \in Siblings(f) : \A q \in Descendants(s) \cup {s} :
                AcceptedLeaf(q) => Received(g[q].data)

\* C8: under fair scheduling, and unless the sink could not connect, the
\* process eventually ends: main's wait completes (or main returns on a
\* failed root fetch, or a failed index creation aborts the process).
C8_Terminates == <>(proc # "running" \/ sinkErr = "connect")

\* C9: once main's wait has completed the output channel has been closed.
C9_ChannelClosed == mainpc = "done" => closed

\* C10: when the sink's storage setup has failed, at connecting or at
\* creating the index, the process has aborted.
C10_SetupFailureFatal ==
    sinkErr \in {"connect", "index"} => proc = "crashed"

\* C11: Add(n) with n > limit panics and leaves the counter and the
\* semaphore as they were; Add(n) with n <= limit does not panic, adds
\* exactly n to the counter, takes a slot only when one is free, does not
\* touch the counter while taking slots, and returns with n slots taken.
C11_AddContract ==
    [][\A c \in Callers :
         LET a == unit.call[c]
             b == unit'.call[c]
             limit == unit.lwg.limit
         IN /\ (a.pc = "idle" /\ b.pc # "idle" /\ b.delta > limit) =>
                   b.pc = "panicked" /\ unit'.lwg = unit.lwg
            /\ (a.pc = "idle" /\ b.pc # "idle" /\ b.delta <= limit) =>
                   /\ b.pc # "panicked"
                   /\ unit'.lwg.wg = unit.lwg.wg + b.delta
                   /\ unit'.lwg.sem = unit.lwg.sem
            /\ b.got > a.got =>
                   /\ unit.lwg.sem < limit
                   /\ unit'.lwg.sem = unit.lwg.sem + 1
                   /\ unit'.lwg.wg = unit.lwg.wg
            /\ (a.pc # "returned" /\ b.pc = "returned") => b.got = b.delta]_vars

C11_Witness ==
    /\ \E c \in Callers :
         unit.call[c].pc = "returned" /\ unit.call[c].got = unit.lwg.limit
    /\ \E c \in Callers : unit.call[c].pc = "panicked"

\* C12: the records InsertOne was called with are, in order, a prefix of
\* the records sent; the record being inserted is the next one sent and
\* the buffered records are the ones after it; no record is attempted twice.
C12_SequentialArrivalOrder ==
    LET inHand == IF sinkpc = "InsertOne" THEN <<cur>> ELSE <<>>
    IN /\ Len(attempted) <= Len(sent)
       /\ \A k \in 1..Len(attempted) : attempted[k] = sent[k]
       /\ \A j, k \in 1..Len(attempted) : attempted[j] = attempted[k] => j = k
       /\ Len(attempted) + Len(inHand) + Len(dataChannel) <= Len(sent)
       /\ SubSeq(sent, Len(attempted) + 1, Len(attempted) + Len(inHand) + Len(dataChannel))
              = inHand \o dataChannel

C12_Witness ==
    /\ Len(attempted) >= 2
    /\ sinkpc = "InsertOne"
    /\ Len(dataChannel) >= 2

\* C13: a goroutine started by processAndStoreLocation runs fetchAndStoreTPS
\* iff its descriptor is at the terminal level and processAndStoreLocation
\* otherwise; the goroutines started by fetchAndStoreTPS, and only those,
\* fetch a leaf result, so every leaf fetch is for a child of a descriptor
\* at the terminal level.
C13_BranchDecision ==
    \A p \in DOMAIN g : Len(p) > 1 =>
        LET par == g[Parent(p)]
        IN /\ par.fn = "psl" =>
                 /\ g[p].loc.Tingkat = TerminalLevel => g[p].fn = "tps"
                 /\ g[p].loc.Tingkat # TerminalLevel => g[p].fn = "psl"
           /\ par.fn = "tps" => g[p].fn = "leaf"
           /\ g[p].fn = "leaf" => par.fn = "tps" /\ par.loc.Tingkat = TerminalLevel

C13_Witness ==
    \E p \in Leaves :
        /\ g[p].pc = "finished"
        /\ Len(p) = 4
        /\ g[Parent(p)].fn = "tps"
        /\ g[Parent(Parent(p))].fn = "psl"
        /\ g[Parent(Parent(p))].loc.Tingkat = TerminalLevel - 1

\* C14: a leaf whose result fetch returned an error sends no record,
\* whatever the record returned with the error holds.
C14_FailedFetchSendsNothing ==
    \A p \in Leaves :
        g[p].err => g[p].pc # "send" /\ ~InSeq(g[p].data, sent)

\* the code of the leaf descriptor a record was fetched for
KodeOf(r) == g[r.body].loc.Kode

\* C15: a fetched record carries the integer value of its leaf's code as id
\* and 0 when the code does not parse; it is then filtered and sent like any
\* other, and of two attempted records with unparseable codes the second is
\* the sink's last attempt and ends in the duplicate-key error.
C15_IdFromKode ==
    /\ \A p \in Leaves : g[p].pc # "fetchDataTPS" =>
           /\ g[p].data.Id = ParseInt(g[p].loc.Kode).val
           /\ ParseInt(g[p].loc.Kode).err => g[p].data.Id = 0
           /\ (g[p].data.StatusSuara /\ g[p].pc \in {"Done", "finished"}) =>
                  InSeq(g[p].data, sent)
    /\ \A k \in 1..Len(sent) : sent[k].Id = ParseInt(KodeOf(sent[k])).val
    /\ \A j, k \in 1..Len(attempted) :
           (j < k /\ ParseInt(KodeOf(attempted[j])).err
                  /\ ParseInt(KodeOf(attempted[k])).err) =>
               /\ attempted[j].Id = attempted[k].Id
               /\ k = Len(attempted)
               /\ sinkErr = "duplicate"
               /\ ~InSeq(attempted[k], store)

C15_Witness ==
    \E j, k \in 1..Len(attempted) :
        /\ j < k
        /\ ParseInt(KodeOf(attempted[j])).err
        /\ ParseInt(KodeOf(attempted[k])).err
        /\ sinkErr = "duplicate"

\* records sent that the sink has not yet taken from the channel
Ahead == Len(sent) - Len(attempted) - (IF sinkpc = "InsertOne" THEN 1 ELSE 0)

\* C16: the channel never buffers more than 20 records and the senders are
\* never more than 20 records ahead of the sink; a leaf at its send can
\* proceed exactly when fewer than 20 records are buffered, and while it
\* waits it still holds the slot of its group.
C16_Backpressure ==
    /\ Len(dataChannel) <= ChanCap
    /\ Ahead <= ChanCap
    /\ \A p \in Leaves : (g[p].pc = "send" /\ proc = "running") =>
           /\ (ENABLED Send(p)) <=> Len(dataChannel) < ChanCap
           /\ g[Parent(p)].lwg.sem >= 1
           /\ p \in InFlight(Parent(p))

C16_Witness ==
    /\ Len(dataChannel) = ChanCap
    /\ sinkpc = "range"
    /\ \E p \in Leaves :
         g[p].pc = "send" /\ g[Parent(p)].pc = "sem" /\ ~SemFree(g[Parent(p)].lwg)

\* goroutines of the traversal of root location t that have not finished
LiveIn(t) == {q \in Descendants(t) \cup {t} : g[q].pc # "finished"}

\* levels of the traversal of root location t, the TPS level included
DepthOf(t) == TerminalLevel - g[t].loc.Tingkat + 2

\* C17: the unfinished goroutines of one root location's traversal number
\* at most depth x limit, and no leaf goroutine is unfinished once the
\* fetchAndStoreTPS call that started it has returned.
C17_LiveTasksBounded ==
    /\ \A t \in DOMAIN g : Len(t) = 1 =>
           Cardinality(LiveIn(t)) <= DepthOf(t) * Limit
    /\ \A p \in Leaves : g[p].pc # "finished" => ~Returned(Parent(p))

\* closures started by the loop of p that have assigned the err variable
\* of p's call and not yet read it back
AtErr(p) ==
    {q \in Expansions : Len(q) = Len(p) + 1 /\ Parent(q) = p /\ g[q].pc = "check"}

\* C18: at most one closure at a time is between its write and its read of
\* the err variable of a processAndStoreLocation call, and the value a
\* closure reads back is the one it assigned.
C18_ErrNotShared ==
    \A p \in Expansions :
        /\ Cardinality(AtErr(p)) <= 1
        /\ \A q \in AtErr(p) : g[p].cerr = g[q].err

C18_Witness ==
    \E p \in Expansions : \E q \in AtErr(p) :
        /\ g[q].pc = "check"
        /\ g[q].err
        /\ \E r \in Siblings(q) : g[r].pc = "finished" /\ ~g[r].err

\* C19: the sink is started before any traversal goroutine; no insert is
\* attempted, and nothing is stored, before the sink has connected and
\* created the unique index; until then every record sent is still in the
\* channel.
C19_SinkFirstIndexFirst ==
    /\ g # <<>> => sinkpc # "none"
    /\ (attempted # <<>> \/ store # <<>> \/ sinkpc = "InsertOne") => indexed
    /\ indexed => sinkpc \notin {"none", "Connect", "CreateIndex"}
    /\ ~indexed => dataChannel = sent

C19_Witness ==
    /\ sinkpc = "CreateIndex"
    /\ ~indexed
    /\ Len(dataChannel) >= 2

\* C20: under every group the semaphore holds one token per child that
\* was started and has not run Done, whatever became of the child's work;
\* the counter is never negative, the semaphore never exceeds it, and
\* after Wait has returned both are zero.
C20_SlotsBalanced ==
    \A p \in Expansions :
        LET lwg == g[p].lwg
        IN /\ lwg.sem = Cardinality(InFlight(p))
           /\ lwg.wg >= 0
           /\ lwg.sem <= lwg.wg
           /\ (g[p].fn = "psl" /\ Returned(p)) => lwg.sem = 0 /\ lwg.wg = 0

C20_Witness ==
    /\ \E p \in Leaves : g[p].pc = "finished" /\ g[p].err
    /\ \E p \in Leaves : g[p].pc = "finished" /\ RejectedLeaf(p)
    /\ \E p \in Expansions : g[p].fn = "psl" /\ Returned(p) /\ g[p].i > 1

====
